---- MODULE Spec2Model ----
(***************************************************************************)
(* MSEEvaluator (sentence_transformers/evaluation/MSEEvaluator.py).        *)
(*                                                                         *)
(* The evaluator embeds the source sentences once with the teacher model   *)
(* at construction; every call embeds the target sentences with the model  *)
(* under evaluation, computes 100 * mean((source - target)^2) with numpy   *)
(* (broadcasting included), appends a row to a CSV file when logging is    *)
(* enabled, stores the metric in the model card data and returns the       *)
(* negated value.                                                          *)
(*                                                                         *)
(* Embeddings are matrices (sequences of rows) of small integers; the MSE  *)
(* is an exact rational [num, den] in lowest terms.  An optional value     *)
(* (Python None or a value) is the empty or the one-element sequence.      *)
(***************************************************************************)
EXTENDS Integers, Sequences, FiniteSets, TLC

VARIABLES
    self,           \* the evaluator's fields, set by __init__
    weights,        \* per model: the current weights (changed by training)
    fs,             \* the file system: per CSV path, whether it exists and its rows
    cardData,       \* per model: the metrics stored in its model card data
    last,           \* the last __call__: its arguments and its outcome
    ncalls,         \* number of __call__ invocations so far
    encodeCalls,    \* number of encode calls made through teacher_model / model
    nlogged,        \* per CSV path: invocations that reached the CSV write
    ctor            \* the arguments and environment of __init__

vars == <<self, weights, fs, cardData, last, ncalls, encodeCalls, nlogged, ctor>>

----------------------------------------------------------------------------
(* Bounds and input sets *)

MaxCalls == 2

None == <<>>
Some(x) == <<x>>

Models == {"m1", "m2"}
SentenceLists == {<<1>>, <<1, 2>>, <<2, 1, 2>>}
TruncateDims == {None, Some(2), Some(3)}
Names == {"", "dev"}
Trainable == {"m2"}
OutputPaths == {None, Some("out")}
EpochSteps == {<<-1, -1>>, <<1, 10>>}

----------------------------------------------------------------------------
(* The embedding models (collaborators) *)

Min(a, b) == IF a < b THEN a ELSE b
Max(a, b) == IF a < b THEN b ELSE a

\* The width of a model's sentence embeddings.
ModelDim(m) == IF m = "m1" THEN 2 ELSE 3

\* The parameters of model m under weights w: distinct for distinct (m, w).
ModelParams(m, w) == (IF m = "m1" THEN 0 ELSE 2) + w

\* Component j of the embedding of sentence s under the parameters k.
EmbedComp(k, s, j) == (((s + k) * j + k) % 5) - 2

\* The embedding of sentence s: a deterministic function of model and weights.
Embed(m, w, s) == [j \in 1..ModelDim(m) |-> EmbedComp(ModelParams(m, w), s, j)]

\* The effect of a truncate_sentence_embeddings(d) scope on one embedding:
\* the leading d components (all of them when there are fewer than d).
Truncate(v, dim) ==
    IF dim = None THEN v ELSE SubSeq(v, 1, Min(dim[1], Len(v)))

\* model.encode(sentences) inside the scope `dim`: one row per sentence.
Encode(m, w, sentences, dim) ==
    [i \in 1..Len(sentences) |-> Truncate(Embed(m, w, sentences[i]), dim)]

----------------------------------------------------------------------------
(* numpy: elementwise subtraction with broadcasting, mean *)

Rows(A) == Len(A)
Cols(A) == Len(A[1])

Broadcastable(a, b) == a = b \/ a = 1 \/ b = 1

ShapesCompatible(A, B) ==
    /\ Broadcastable(Rows(A), Rows(B))
    /\ Broadcastable(Cols(A), Cols(B))

\* Element (i, j) of A stretched to a larger shape.
At(A, i, j) ==
    A[IF Rows(A) = 1 THEN 1 ELSE i][IF Cols(A) = 1 THEN 1 ELSE j]

Subtract_Added(A, B) ==
    [i \in 1..Max(Rows(A), Rows(B)) |->
        [j \in 1..Max(Cols(A), Cols(B)) |-> At(A, i, j) + At(B, i, j)]]

Subtract(A, B) ==
    [i \in 1..Max(Rows(A), Rows(B)) |->
        [j \in 1..Max(Cols(A), Cols(B)) |-> At(A, i, j) - At(B, i, j)]]

Square_Omitted(A) == A

Square(A) == [i \in 1..Rows(A) |-> [j \in 1..Cols(A) |-> A[i][j] * A[i][j]]]

RECURSIVE SumSeq(_)
SumSeq(s) == IF s = <<>> THEN 0 ELSE s[1] + SumSeq(Tail(s))

RECURSIVE SumMatrix(_)
SumMatrix(A) == IF A = <<>> THEN 0 ELSE SumSeq(A[1]) + SumMatrix(Tail(A))

RECURSIVE GCD(_, _)
GCD(a, b) == IF b = 0 THEN a ELSE GCD(b, a % b)

Abs(n) == IF n < 0 THEN -n ELSE n

\* The number n / d, d > 0, in lowest terms.
Rat(n, d) ==
    LET g == GCD(Abs(n), d)
    IN  [num |-> n \div g, den |-> d \div g]

Mean(A) == Rat(SumMatrix(A), Rows(A) * Cols(A))

Times(r, k) == Rat(r.num * k, r.den)

Neg(r) == [num |-> -r.num, den |-> r.den]

----------------------------------------------------------------------------
(* MSEEvaluator *)

csv_headers == [header |-> <<"epoch", "steps", "MSE">>]

CsvFile(name) == <<"mse_evaluation_", name, "_results.csv">>

Paths == {CsvFile(n) : n \in Names}

NoFile == [exists |-> FALSE, rows |-> <<>>]

\* __init__: the evaluator's fields.
Construct(source_sentences, target_sentences, teacher_model, teacher_weights, name, write_csv, truncate_dim) ==
    [truncate_dim      |-> truncate_dim,
     source_embeddings |-> Encode(teacher_model, teacher_weights,
                                  source_sentences, truncate_dim),
     target_sentences  |-> target_sentences,
     name              |-> name,
     csv_file          |-> CsvFile(name),
     write_csv         |-> write_csv,
     primary_metric    |-> "negative_mse"]

ComputeMSE_Unscaled(source_embeddings, target_embeddings) ==
    Mean(Square(Subtract(source_embeddings, target_embeddings)))

\* mse = ((source_embeddings - target_embeddings) ** 2).mean(); mse *= 100
ComputeMSE(source_embeddings, target_embeddings) ==
    Times(Mean(Square(Subtract(source_embeddings, target_embeddings))), 100)

LoggingEnabled_PathOnly(output_path, write_csv) == output_path # None

\* if output_path is not None and self.write_csv
LoggingEnabled(output_path, write_csv) == output_path # None /\ write_csv

WriteCsv_HeaderEveryTime(file, epoch, steps, mse) ==
    [exists |-> TRUE,
     rows   |-> file.rows \o <<csv_headers>>
                \o <<[epoch |-> epoch, steps |-> steps, MSE |-> mse]>>]

WriteCsv_Overwrite(file, epoch, steps, mse) ==
    [exists |-> TRUE,
     rows   |-> (IF file.exists THEN <<>> ELSE <<csv_headers>>)
                \o <<[epoch |-> epoch, steps |-> steps, MSE |-> mse]>>]

\* The CSV file after the write: opened "a" when it exists, else "w" with the
\* header first; then the row [epoch, steps, mse].
WriteCsv(file, epoch, steps, mse) ==
    [exists |-> TRUE,
     rows   |-> (IF file.exists THEN file.rows ELSE <<csv_headers>>)
                \o <<[epoch |-> epoch, steps |-> steps, MSE |-> mse]>>]

\* metrics = {"negative_mse": -mse}, the key prefixed with the evaluator's name.
Metrics(name, mse) ==
    [key   |-> IF name = "" THEN <<"negative_mse">> ELSE <<name, "_", "negative_mse">>,
     value |-> Neg(mse)]

\* How the call ends: encode raises, the subtraction raises, or it returns.
Outcome(source_embeddings, target_embeddings, raises) ==
    IF raises THEN "encode_error"
    ELSE IF ~ShapesCompatible(source_embeddings, target_embeddings) THEN "shape_error"
    ELSE "ok"

FsAfter_OpensFirst(outcome, files, path, enabled, epoch, steps, mse) ==
    IF outcome = "ok" /\ enabled
    THEN [files EXCEPT ![path] = WriteCsv(files[path], epoch, steps, mse[1])]
    ELSE IF enabled /\ ~files[path].exists
    THEN [files EXCEPT ![path] = [exists |-> TRUE, rows |-> <<csv_headers>>]]
    ELSE files

\* The file system after a call with the given outcome: an exception raised
\* by encode or by the subtraction leaves before the CSV write.
FsAfter(outcome, files, path, enabled, epoch, steps, mse) ==
    IF outcome = "ok" /\ enabled
    THEN [files EXCEPT ![path] = WriteCsv(files[path], epoch, steps, mse[1])]
    ELSE files

\* The model card data after a call with the given outcome.
CardDataAfter(outcome, data, model, metrics) ==
    IF outcome = "ok" THEN [data EXCEPT ![model] = metrics] ELSE data

SourceEmbeddings_Recomputed(evaluator) ==
    Encode(ctor.teacher_model, weights[ctor.teacher_model], ctor.source_sentences,
           evaluator.truncate_dim)

\* The embeddings the call compares with the target embeddings.
SourceEmbeddings(evaluator) == evaluator.source_embeddings

CallScope_None(evaluator) == None

\* The truncation scope the call encodes the target sentences in.
CallScope(evaluator) == evaluator.truncate_dim

NoCall ==
    [called |-> FALSE, model |-> "m1", model_weights |-> 0, output_path |-> None, epoch |-> -1,
     steps |-> -1, outcome |-> "none", scope |-> None,
     target_embeddings |-> <<>>, mse |-> None, returned |-> None]

\* The inputs of __init__ and whether the CSV files exist beforehand: the
\* sentence lists, teacher and truncation vary with the default name and CSV
\* setting, and the name, the CSV setting and the files vary with one fixed
\* pair of sentence lists.
ConstructInputs ==
    { c \in [source_sentences : SentenceLists, target_sentences : SentenceLists,
             teacher_model : Models, name : Names, write_csv : BOOLEAN,
             truncate_dim : TruncateDims, file_existed : BOOLEAN] :
        \/ c.name = "" /\ c.write_csv /\ ~c.file_existed
        \/ /\ c.source_sentences = <<1, 2>> /\ c.target_sentences = <<1, 2>>
           /\ c.teacher_model = "m1" /\ c.truncate_dim = None }

Init ==
    \E c \in ConstructInputs :
        /\ weights = [m \in Models |-> 0]
        /\ self = Construct(c.source_sentences, c.target_sentences, c.teacher_model,
                            weights[c.teacher_model], c.name, c.write_csv, c.truncate_dim)
        /\ fs = [p \in Paths |->
                    IF c.file_existed THEN [exists |-> TRUE, rows |-> <<>>] ELSE NoFile]
        /\ cardData = [m \in Models |-> None]
        /\ last = NoCall
        /\ ncalls = 0
        /\ encodeCalls = [teacher |-> 1, model |-> 0]
        /\ nlogged = [p \in Paths |-> 0]
        /\ ctor = [source_sentences |-> c.source_sentences,
                   teacher_model    |-> c.teacher_model,
                   teacher_weights  |-> weights[c.teacher_model],
                   file_existed     |-> c.file_existed]

\* __call__(model, output_path, epoch, steps); `raises` is whether model.encode raises.
Call(model, output_path, epoch, steps, raises) ==
    /\ ncalls < MaxCalls
    /\ LET scope   == CallScope(self)
           target  == Encode(model, weights[model], self.target_sentences, scope)
           source  == SourceEmbeddings(self)
           outcome == Outcome(source, target, raises)
           mse     == IF outcome = "ok" THEN Some(ComputeMSE(source, target)) ELSE None
           metrics == IF outcome = "ok" THEN Some(Metrics(self.name, mse[1])) ELSE None
           enabled == LoggingEnabled(output_path, self.write_csv)
       IN  /\ fs' = FsAfter(outcome, fs, self.csv_file, enabled, epoch, steps, mse)
           /\ cardData' = CardDataAfter(outcome, cardData, model, metrics)
           /\ nlogged' = IF outcome = "ok" /\ self.write_csv /\ output_path # None
                         THEN [nlogged EXCEPT ![self.csv_file] = @ + 1]
                         ELSE nlogged
           /\ last' = [called |-> TRUE, model |-> model,
                       model_weights |-> weights[model], output_path |-> output_path,
                       epoch |-> epoch, steps |-> steps, outcome |-> outcome,
                       scope |-> scope,
                       target_embeddings |-> IF raises THEN <<>> ELSE target,
                       mse |-> mse, returned |-> metrics]
    /\ ncalls' = ncalls + 1
    /\ encodeCalls' = [encodeCalls EXCEPT !.model = @ + 1]
    /\ UNCHANGED <<self, weights, ctor>>

\* A training step changes the weights of the model in training between two
\* evaluations.
Train(m) ==
    /\ 0 < ncalls /\ ncalls < MaxCalls
    /\ weights' = [weights EXCEPT ![m] = 1 - @]
    /\ UNCHANGED <<self, fs, cardData, last, ncalls, encodeCalls, nlogged, ctor>>

Next ==
    \/ \E m \in Models, o \in OutputPaths, es \in EpochSteps, raises \in BOOLEAN :
          Call(m, o, es[1], es[2], raises)
    \/ \E m \in Trainable : Train(m)

Spec == Init /\ [][Next]_vars

----------------------------------------------------------------------------
(* Properties *)

\* A step of __call__.
CallStep == ncalls' = ncalls + 1

\* The embeddings the teacher produced at construction.
ConstructionEmbeddings ==
    Encode(ctor.teacher_model, ctor.teacher_weights, ctor.source_sentences,
           self.truncate_dim)

RECURSIVE SumOver(_, _)
SumOver(f, S) ==
    IF S = {} THEN 0
    ELSE LET x == CHOOSE y \in S : TRUE IN f[x] + SumOver(f, S \ {x})

\* v is the negation of 100 * mean((A - B)^2), the mean taken over all the
\* elements of the difference of A and B stretched to a common shape.
IsNegatedMSE(v, A, B) ==
    LET idx == (1..Max(Rows(A), Rows(B))) \X (1..Max(Cols(A), Cols(B)))
        sq  == [p \in idx |->
                  (At(A, p[1], p[2]) - At(B, p[1], p[2]))
                  * (At(A, p[1], p[2]) - At(B, p[1], p[2]))]
    IN  /\ v.den > 0
        /\ v.num * Cardinality(idx) = (0 - 100 * SumOver(sq, idx)) * v.den

IsDataRow(r) == DOMAIN r = {"epoch", "steps", "MSE"}

DataRows(p) == {i \in 1..Len(fs[p].rows) : IsDataRow(fs[p].rows[i])}

\* C1: starting without the CSV file, after n >= 1 successful invocations with
\* write_csv and an output path the file holds the header row first and then
\* exactly n data rows.
C1_OneHeaderThenRows ==
    \A p \in Paths :
        (~ctor.file_existed /\ nlogged[p] >= 1) =>
            /\ fs[p].exists
            /\ Len(fs[p].rows) = nlogged[p] + 1
            /\ fs[p].rows[1] = csv_headers
            /\ DataRows(p) = 2..(nlogged[p] + 1)

C1_Witness ==
    /\ ~ctor.file_existed
    /\ nlogged[self.csv_file] = 2
    /\ Len(fs[self.csv_file].rows) = 3

\* C2: the returned value is the negation of 100 * mean((source - target)^2),
\* the source embeddings being those cached at construction and the target
\* embeddings those the evaluated model produces during the same invocation.
C2_ReturnsNegatedMSE ==
    [][(CallStep /\ last'.outcome = "ok") =>
         LET target == Encode(last'.model, weights[last'.model],
                              self.target_sentences, self.truncate_dim)
         IN  /\ last'.target_embeddings = target
             /\ IsNegatedMSE(last'.returned[1].value, ConstructionEmbeddings, target)
             /\ last'.returned[1].value = Neg(last'.mse[1])]_vars

C2_Witness ==
    /\ last.outcome = "ok"
    /\ last.returned[1].value.num < 0
    /\ last.returned[1].value.den > 1

C5_EncodeOncePerUse ==
    /\ [](/\ encodeCalls.teacher = 1
          /\ encodeCalls.model = ncalls
          /\ self.source_embeddings = ConstructionEmbeddings)
    /\ [][(CallStep /\ last'.outcome = "ok") =>
            /\ last'.target_embeddings =
                  Encode(last'.model, weights[last'.model],
                         self.target_sentences, self.truncate_dim)
            /\ last'.mse[1] = ComputeMSE(ConstructionEmbeddings,
                                         last'.target_embeddings)]_vars

C5_Witness ==
    /\ ncalls = 2
    /\ encodeCalls.model = 2
    /\ last.outcome = "ok"
    /\ weights[ctor.teacher_model] # ctor.teacher_weights
    /\ last.model = ctor.teacher_model
    /\ last.mse[1].num > 0

\* C6: the CSV log is append-only: a call leaves the old content as a prefix,
\* and a successful call with logging enabled adds (the header only if the
\* file did not exist, then) exactly one row with the call's epoch and steps
\* and the mse whose negation the call returns.
C6_AppendOnly ==
    [][CallStep =>
         LET p       == self.csv_file
             logging == self.write_csv /\ last'.output_path # None
             before  == fs[p].rows
         IN  /\ \A q \in Paths :
                   /\ Len(fs'[q].rows) >= Len(fs[q].rows)
                   /\ SubSeq(fs'[q].rows, 1, Len(fs[q].rows)) = fs[q].rows
                   /\ fs[q].exists => fs'[q].exists
             /\ (logging /\ last'.outcome = "ok") =>
                   /\ fs'[p].exists
                   /\ fs'[p].rows =
                         (IF fs[p].exists THEN before ELSE <<csv_headers>>)
                         \o <<[epoch |-> last'.epoch, steps |-> last'.steps,
                               MSE   |-> Neg(last'.returned[1].value)]>>
                   /\ \A q \in Paths \ {p} : fs'[q] = fs[q]]_vars

C6_Witness ==
    /\ last.outcome = "ok"
    /\ self.write_csv /\ last.output_path # None
    /\ ctor.file_existed
    /\ Len(fs[self.csv_file].rows) = 2
    /\ fs[self.csv_file].rows[1].epoch # fs[self.csv_file].rows[2].epoch

ScopedWidth(m, dim) ==
    IF dim = None THEN ModelDim(m) ELSE Min(dim[1], ModelDim(m))

C8_MismatchRaises ==
    ( /\ last.called /\ last.outcome # "encode_error"
      /\ \/ Len(ctor.source_sentences) # Len(self.target_sentences)
         \/ Cols(self.source_embeddings) # Cols(last.target_embeddings) )
    => /\ last.outcome = "shape_error"
       /\ last.returned = None

\* C9: a call with write_csv = False or output_path = None creates and changes
\* no file, and returns and stores the metric a logging call would.
C9_LoggingOnlyAffectsCsv ==
    [][(CallStep /\ (~self.write_csv \/ last'.output_path = None)) =>
         /\ fs' = fs
         /\ last'.outcome = "ok" =>
               /\ IsNegatedMSE(last'.returned[1].value, self.source_embeddings,
                               last'.target_embeddings)
               /\ last'.returned[1].key =
                     (IF self.name = "" THEN <<"negative_mse">>
                      ELSE <<self.name, "_", "negative_mse">>)
               /\ cardData'[last'.model] = last'.returned
               /\ \A m \in Models \ {last'.model} : cardData'[m] = cardData[m]]_vars

C9_Witness ==
    /\ last.outcome = "ok"
    /\ ~self.write_csv
    /\ last.output_path # None
    /\ self.name = "dev"
    /\ cardData[last.model] = last.returned
    /\ ~fs[self.csv_file].exists

\* C10: a call that fails while encoding the target sentences or computing the
\* MSE leaves the files, the model card data, the models and the evaluator as
\* they were, and returns nothing.
C10_FailureLeavesState ==
    [][(CallStep /\ last'.outcome # "ok") =>
         /\ fs' = fs
         /\ cardData' = cardData
         /\ self' = self
         /\ weights' = weights
         /\ last'.returned = None]_vars

C10_Witness ==
    /\ last.called
    /\ last.outcome = "shape_error"
    /\ self.write_csv /\ last.output_path # None
    /\ ~fs[self.csv_file].exists
    /\ ncalls = 2
    /\ \E m \in Models : cardData[m] # None

====
